---- MODULE Spec2Model ----
(***************************************************************************)
(* Model of the gateway (src/app.py): a Flask application that proxies     *)
(* /predict, /medications and /health to a backend service.                *)
(*                                                                         *)
(* The handlers write no module-level state, so every request is an        *)
(* independent instance of the same state machine; the model follows one   *)
(* request from its arrival to its response, then the next one.  A handler *)
(* is cut into steps at its blocking calls to the backend (requests.get,   *)
(* requests.post): everything the code does between two such calls is one  *)
(* action.  The backend and the requests library are the environment: each *)
(* call returns a response or raises, chosen nondeterministically.         *)
(***************************************************************************)
EXTENDS Integers, Sequences, FiniteSets, TLC

\* ------------------------------------------------------------------ bounds
MaxRequests == 2     \* requests served in one behaviour
NumBodies == 2       \* distinct JSON bodies the backend can answer with

\* --------------------------------------------------------------- constants
BACKEND_TIMEOUT == 30
HEALTH_TIMEOUT == 10

required_fields == <<"gender", "age", "medication", "dose", "duration">>

Fields == {required_fields[i] : i \in 1..Len(required_fields)}

\* ----------------------------------------------------------- request bodies
Absent == "<absent>"
Elem == "<elem>"

\* Values a client may send for a field; the second and later ones are the
\* values the prediction service would reject.
FieldValues(f) ==
    CASE f = "gender" -> {"Female", "robot"}
      [] f = "age" -> {"45", "150", "abc"}
      [] f = "medication" -> {"Metformin", "Unobtainium"}
      [] f = "dose" -> {"500", "0"}
      [] f = "duration" -> {"30", "-1"}

NoData == [f \in Fields |-> Absent]

\* A JSON object: each required field is absent or carries a value.
Objects == {d \in [Fields -> UNION {FieldValues(f) : f \in Fields} \cup {Absent}] :
               \A f \in Fields : d[f] \in FieldValues(f) \cup {Absent}}

\* A JSON array of strings or a JSON string: what matters to `field in data`
\* is which field names are elements (array) or substrings (string) of it.
Containers == {[f \in Fields |-> Elem],
               [f \in Fields |-> IF f = "dose" THEN Absent ELSE Elem],
               NoData}

NoBody == [kind |-> "none", data |-> NoData]

Bodies ==
    [kind : {"object"}, data : Objects]
    \cup [kind : {"list", "string"}, data : Containers]
    \cup [kind : {"null", "number", "malformed"}, data : {NoData}]

\* ------------------------------------------------- outcomes of backend calls
BackendStatuses == {200, 201, 400, 500}
ProbeStatuses == {200, 500, 503}

NoOutcome == [kind |-> "none", status |-> 0, json |-> FALSE, body |-> 0, exc |-> ""]

Answer(s, j, b) == [kind |-> "response", status |-> s, json |-> j, body |-> b, exc |-> ""]

Raised(e) == [kind |-> "exception", status |-> 0, json |-> FALSE, body |-> 0, exc |-> e]

ProbeOutcomes ==
    {Answer(s, FALSE, 0) : s \in ProbeStatuses}
    \cup {Raised(e) : e \in {"Timeout", "ConnectionError", "ValueError", "RuntimeError"}}

CallOutcomes ==
    {Answer(s, TRUE, b) : s \in BackendStatuses, b \in 1..NumBodies}
    \cup {Answer(s, FALSE, 0) : s \in BackendStatuses}
    \cup {Raised(e) : e \in {"Timeout", "ConnectionError", "ConnectTimeout", "TooManyRedirects"}}

\* Classes an exception is an instance of (requests.exceptions, werkzeug and
\* the builtins), as the except clauses of the handlers see them.
Classes(e) ==
    CASE e = "Timeout" -> {"Timeout", "RequestException", "Exception"}
      [] e = "ConnectionError" -> {"ConnectionError", "RequestException", "Exception"}
      [] e = "ConnectTimeout" -> {"ConnectTimeout", "ConnectionError", "Timeout",
                                  "RequestException", "Exception"}
      [] e = "TooManyRedirects" -> {"TooManyRedirects", "RequestException", "Exception"}
      [] e = "JSONDecodeError" -> {"JSONDecodeError", "RequestException", "ValueError",
                                   "Exception"}
      [] e = "ValueError" -> {"ValueError", "Exception"}
      [] OTHER -> {e, "Exception"}

IsInstance(e, cls) == cls \in Classes(e)

\* ---------------------------------------------------------------- responses
NoError == <<>>

\* jsonify(...) with a status code: every response of the handlers is built
\* by jsonify, so its mimetype is application/json.
jsonify(code, error, relayed, b, st, bst) ==
    [code |-> code, mimetype |-> "application/json", error |-> error,
     relayed |-> relayed, body |-> b, status |-> st, backend_status |-> bst]

ErrorResponse(code, error) == jsonify(code, error, FALSE, 0, "", "")

\* ------------------------------------------------------------------- state
VARIABLES
    pc,            \* "idle", "probe", "call" or "done": position of the handler
    route,         \* endpoint the current request was routed to
    body,          \* body of the current request
    bodyRead,      \* request.json has been evaluated
    probe,         \* outcome of GET BACKEND_URL/health for this request
    answer,        \* outcome of the forwarded backend call for this request
    healthCalls,   \* GET BACKEND_URL/health issued for this request
    predictCalls,  \* POST BACKEND_URL/predict issued for this request
    medCalls,      \* GET BACKEND_URL/medications issued for this request
    sent,          \* payload of the POST to BACKEND_URL/predict
    timeout,       \* timeout of the backend call in flight
    out,           \* responses returned to the client for this request
    served         \* requests answered so far

vars == <<pc, route, body, bodyRead, probe, answer, healthCalls, predictCalls,
          medCalls, sent, timeout, out, served>>

Init ==
    /\ pc = "idle"
    /\ route = "none"
    /\ body = NoBody
    /\ bodyRead = FALSE
    /\ probe = NoOutcome
    /\ answer = NoOutcome
    /\ healthCalls = 0
    /\ predictCalls = 0
    /\ medCalls = 0
    /\ sent = NoBody
    /\ timeout = 0
    /\ out = <<>>
    /\ served = 0


\* ------------------------------------------------------- check_backend_health
\* requests.get(...) raised something the except clause of
\* check_backend_health does not catch: it propagates to the caller.
health_raises(o) == o.kind = "exception" /\ ~IsInstance(o.exc, "RequestException")

\* Variant: any answer of the backend counts as healthy, whatever its status.
check_backend_health_AnyAnswer(o) == o.kind = "response"

\* The value check_backend_health returns when it returns.
check_backend_health(o) ==
    IF o.kind = "response" THEN o.status = 200 ELSE FALSE

\* ------------------------------------------------------------------ predict
\* Variant: the loop reports the last missing field instead of the first.
LastMissingFrom(data, i) ==
    LET S == {j \in i..Len(required_fields) : data[required_fields[j]] = Absent}
    IN IF S = {} THEN "" ELSE required_fields[CHOOSE j \in S : \A k \in S : k <= j]

RECURSIVE FirstMissingFrom(_, _)
FirstMissingFrom(data, i) ==
    IF i > Len(required_fields) THEN ""
    ELSE IF data[required_fields[i]] = Absent THEN required_fields[i]
    ELSE FirstMissingFrom(data, i + 1)

\* Variant: the gateway also checks the range of age, as the prediction
\* service does.
validate_Ranges(b) ==
    CASE b.kind = "malformed" -> [exc |-> "BadRequest", missing |-> ""]
      [] b.kind \in {"null", "number", "none"} -> [exc |-> "TypeError", missing |-> ""]
      [] b.kind = "object" /\ b.data["age"] \notin {"45", Absent} ->
             [exc |-> "ValueError", missing |-> ""]
      [] OTHER -> [exc |-> "", missing |-> FirstMissingFrom(b.data, 1)]

\* data = request.json and the loop over required_fields: the exception the
\* two raise, or the first field that is not in data ("" when none).
validate(b) ==
    CASE b.kind = "malformed" -> [exc |-> "BadRequest", missing |-> ""]
      [] b.kind \in {"null", "number", "none"} -> [exc |-> "TypeError", missing |-> ""]
      [] OTHER -> [exc |-> "", missing |-> FirstMissingFrom(b.data, 1)]

\* Variant: the ConnectionError clause comes before the Timeout clause.
forward_error_ConnectionFirst(e) ==
    IF IsInstance(e, "ConnectionError")
    THEN ErrorResponse(503, <<"Cannot connect to backend API. Please ensure the service is running.">>)
    ELSE IF IsInstance(e, "Timeout")
    THEN ErrorResponse(504, <<"Backend API request timed out. Please try again.">>)
    ELSE ErrorResponse(500, <<"Backend communication error: ", e>>)

\* The except clauses around the forwarding call, in their order.
forward_error(e) ==
    IF IsInstance(e, "Timeout")
    THEN ErrorResponse(504, <<"Backend API request timed out. Please try again.">>)
    ELSE IF IsInstance(e, "ConnectionError")
    THEN ErrorResponse(503, <<"Cannot connect to backend API. Please ensure the service is running.">>)
    ELSE ErrorResponse(500, <<"Backend communication error: ", e>>)

\* Variant: the backend's status code is dropped on every path.
relay_Always200(r) ==
    IF ~r.json THEN forward_error("JSONDecodeError")
    ELSE jsonify(200, NoError, TRUE, r.body, "", "")

\* What predict returns once requests.post has returned a response r.
relay(r) ==
    IF ~r.json THEN forward_error("JSONDecodeError")
    ELSE IF r.status = 200 THEN jsonify(200, NoError, TRUE, r.body, "", "")
    ELSE jsonify(r.status, NoError, TRUE, r.body, "", "")

\* Variant: the outer except clauses answer with the bare exception text.
predict_outer_Text(e) ==
    [code |-> IF IsInstance(e, "ValueError") THEN 400 ELSE 500,
     mimetype |-> "text/html", error |-> NoError, relayed |-> FALSE, body |-> 0,
     status |-> "", backend_status |-> ""]

\* The outer except clauses of predict.
predict_outer(e) ==
    IF IsInstance(e, "ValueError") THEN ErrorResponse(400, <<e>>)
    ELSE ErrorResponse(500, <<"Prediction failed: ", e>>)

predict_unavailable ==
    ErrorResponse(503, <<"Backend API is not available. Please ensure the backend service is running.">>)

missing_field(f) == ErrorResponse(400, <<"Missing required field: ", f>>)

\* -------------------------------------------------------------- medications
medications_unavailable == ErrorResponse(503, <<"Backend API is not available">>)

\* Variant: medications maps transport failures the way predict does.
medications_error_Mapped(e) == forward_error(e)

medications_error(e) == ErrorResponse(500, <<e>>)

medications_relay(r) ==
    IF ~r.json THEN medications_error("JSONDecodeError")
    ELSE jsonify(r.status, NoError, TRUE, r.body, "", "")

\* ------------------------------------------------------------------- health
\* Variant: status reports the gateway's own health only.
health_response_OwnStatus(backend_healthy) ==
    jsonify(200, NoError, FALSE, 0, "healthy",
            IF backend_healthy THEN "online" ELSE "offline")

health_response(backend_healthy) ==
    jsonify(200, NoError, FALSE, 0,
            IF backend_healthy THEN "healthy" ELSE "degraded",
            IF backend_healthy THEN "online" ELSE "offline")

health_error(e) == jsonify(500, <<e>>, FALSE, 0, "unhealthy", "")

\* ------------------------------------------------------------ error handlers
not_found == ErrorResponse(404, <<"Endpoint not found">>)

\* ------------------------------------------------------------------ actions
\* The handler returns resp: the request is answered.
Return(resp) ==
    /\ pc' = "done"
    /\ out' = Append(out, resp)

\* A handler starts by calling check_backend_health: GET BACKEND_URL/health.
StartProbe(r, b) ==
    /\ pc = "idle"
    /\ served < MaxRequests
    /\ pc' = "probe"
    /\ route' = r
    /\ body' = b
    /\ healthCalls' = healthCalls + 1
    /\ timeout' = HEALTH_TIMEOUT
    /\ UNCHANGED <<bodyRead, probe, answer, predictCalls, medCalls, sent, out, served>>

ReceivePredict == \E b \in Bodies : StartProbe("predict", b)

ReceiveMedications == StartProbe("medications", NoBody)

ReceiveHealth == StartProbe("health", NoBody)

\* A request for a URL no route matches: the 404 error handler answers.
ReceiveUnknown ==
    /\ pc = "idle"
    /\ served < MaxRequests
    /\ route' = "unknown"
    /\ Return(not_found)
    /\ UNCHANGED <<body, bodyRead, probe, answer, healthCalls, predictCalls,
                   medCalls, sent, timeout, served>>

\* Variant: the body is read and checked before the result of the probe is
\* looked at.
PredictValidatesFirst(o) ==
    /\ pc = "probe"
    /\ route = "predict"
    /\ probe' = o
    /\ bodyRead' = TRUE
    /\ LET v == validate(body) IN
       IF v.exc # ""
       THEN /\ Return(predict_outer(v.exc))
            /\ UNCHANGED <<predictCalls, sent, timeout>>
       ELSE IF v.missing # ""
       THEN /\ Return(missing_field(v.missing))
            /\ UNCHANGED <<predictCalls, sent, timeout>>
       ELSE IF health_raises(o)
       THEN /\ Return(predict_outer(o.exc))
            /\ UNCHANGED <<predictCalls, sent, timeout>>
       ELSE IF ~check_backend_health(o)
       THEN /\ Return(predict_unavailable)
            /\ UNCHANGED <<predictCalls, sent, timeout>>
       ELSE /\ pc' = "call"
            /\ predictCalls' = predictCalls + 1
            /\ sent' = body
            /\ timeout' = BACKEND_TIMEOUT
            /\ out' = out
    /\ UNCHANGED <<route, body, answer, healthCalls, medCalls, served>>

\* predict, from the return of check_backend_health to requests.post or to
\* the response.
PredictProbeReturns(o) ==
    /\ pc = "probe"
    /\ route = "predict"
    /\ probe' = o
    /\ IF health_raises(o)
       THEN /\ Return(predict_outer(o.exc))
            /\ UNCHANGED <<bodyRead, predictCalls, sent, timeout>>
       ELSE IF ~check_backend_health(o)
       THEN /\ Return(predict_unavailable)
            /\ UNCHANGED <<bodyRead, predictCalls, sent, timeout>>
       ELSE /\ bodyRead' = TRUE
            /\ LET v == validate(body) IN
               IF v.exc # ""
               THEN /\ Return(predict_outer(v.exc))
                    /\ UNCHANGED <<predictCalls, sent, timeout>>
               ELSE IF v.missing # ""
               THEN /\ Return(missing_field(v.missing))
                    /\ UNCHANGED <<predictCalls, sent, timeout>>
               ELSE /\ pc' = "call"
                    /\ predictCalls' = predictCalls + 1
                    /\ sent' = body
                    /\ timeout' = BACKEND_TIMEOUT
                    /\ out' = out
    /\ UNCHANGED <<route, body, answer, healthCalls, medCalls, served>>

\* Variant: a forward that timed out is issued once more.
PredictCallRetries(o) ==
    /\ pc = "call"
    /\ route = "predict"
    /\ answer' = o
    /\ IF o.kind = "exception" /\ IsInstance(o.exc, "Timeout") /\ predictCalls < 2
       THEN /\ predictCalls' = predictCalls + 1
            /\ UNCHANGED <<pc, out>>
       ELSE /\ Return(IF o.kind = "exception" THEN forward_error(o.exc) ELSE relay(o))
            /\ UNCHANGED predictCalls
    /\ UNCHANGED <<route, body, bodyRead, probe, healthCalls,
                   medCalls, sent, timeout, served>>

\* predict, from the return of requests.post to the response.
PredictCallReturns(o) ==
    /\ pc = "call"
    /\ route = "predict"
    /\ answer' = o
    /\ Return(IF o.kind = "exception" THEN forward_error(o.exc) ELSE relay(o))
    /\ UNCHANGED <<route, body, bodyRead, probe, healthCalls, predictCalls,
                   medCalls, sent, timeout, served>>

\* medications, from the return of check_backend_health to requests.get or to
\* the response.
MedicationsProbeReturns(o) ==
    /\ pc = "probe"
    /\ route = "medications"
    /\ probe' = o
    /\ IF health_raises(o)
       THEN /\ Return(medications_error(o.exc))
            /\ UNCHANGED <<medCalls, timeout>>
       ELSE IF ~check_backend_health(o)
       THEN /\ Return(medications_unavailable)
            /\ UNCHANGED <<medCalls, timeout>>
       ELSE /\ pc' = "call"
            /\ medCalls' = medCalls + 1
            /\ timeout' = HEALTH_TIMEOUT
            /\ out' = out
    /\ UNCHANGED <<route, body, bodyRead, answer, healthCalls, predictCalls,
                   sent, served>>

\* medications, from the return of requests.get to the response.
MedicationsCallReturns(o) ==
    /\ pc = "call"
    /\ route = "medications"
    /\ answer' = o
    /\ Return(IF o.kind = "exception" THEN medications_error(o.exc)
              ELSE medications_relay(o))
    /\ UNCHANGED <<route, body, bodyRead, probe, healthCalls, predictCalls,
                   medCalls, sent, timeout, served>>

\* health, from the return of check_backend_health to the response.
HealthProbeReturns(o) ==
    /\ pc = "probe"
    /\ route = "health"
    /\ probe' = o
    /\ Return(IF health_raises(o) THEN health_error(o.exc)
              ELSE health_response(check_backend_health(o)))
    /\ UNCHANGED <<route, body, bodyRead, answer, healthCalls, predictCalls,
                   medCalls, sent, timeout, served>>

\* The response has gone to the client; the server takes the next request.
Close ==
    /\ pc = "done"
    /\ pc' = "idle"
    /\ route' = "none"
    /\ body' = NoBody
    /\ bodyRead' = FALSE
    /\ probe' = NoOutcome
    /\ answer' = NoOutcome
    /\ healthCalls' = 0
    /\ predictCalls' = 0
    /\ medCalls' = 0
    /\ sent' = NoBody
    /\ timeout' = 0
    /\ out' = <<>>
    /\ served' = served + 1

Next ==
    \/ ReceivePredict
    \/ ReceiveMedications
    \/ ReceiveHealth
    \/ ReceiveUnknown
    \/ \E o \in ProbeOutcomes : PredictProbeReturns(o)
    \/ \E o \in CallOutcomes : PredictCallReturns(o)
    \/ \E o \in ProbeOutcomes : MedicationsProbeReturns(o)
    \/ \E o \in CallOutcomes : MedicationsCallReturns(o)
    \/ \E o \in ProbeOutcomes : HealthProbeReturns(o)
    \/ Close

Spec == Init /\ [][Next]_vars

TypeOK ==
    /\ pc \in {"idle", "probe", "call", "done"}
    /\ route \in {"none", "predict", "medications", "health", "unknown"}
    /\ body \in Bodies \cup {NoBody}
    /\ bodyRead \in BOOLEAN
    /\ probe \in ProbeOutcomes \cup {NoOutcome}
    /\ answer \in CallOutcomes \cup {NoOutcome}
    /\ healthCalls \in 0..1
    /\ predictCalls \in 0..1
    /\ medCalls \in 0..1
    /\ sent \in Bodies \cup {NoBody}
    /\ timeout \in {0, HEALTH_TIMEOUT, BACKEND_TIMEOUT}
    /\ Len(out) <= 1
    /\ served \in 0..MaxRequests


\* ------------------------------------------------------ vocabulary of claims
\* The probe outcomes the claims call a failed probe: a timeout, a connection
\* failure, or an answer whose status is not 200.
ProbeFailed(o) ==
    \/ o.kind = "response" /\ o.status # 200
    \/ o.kind = "exception" /\ o.exc \in {"Timeout", "ConnectionError", "ConnectTimeout"}

ProbeSucceeded(o) == o.kind = "response" /\ o.status = 200

Rank(f) ==
    CASE f = "gender" -> 1
      [] f = "age" -> 2
      [] f = "medication" -> 3
      [] f = "dose" -> 4
      [] f = "duration" -> 5

MissingFields(d) == {f \in Fields : d[f] = Absent}

FirstInOrder(S) == CHOOSE f \in S : \A g \in S : Rank(f) <= Rank(g)

Answered == pc = "done" /\ Len(out) = 1

\* C1: a POST /predict whose liveness probe failed is answered 503 and no POST
\* to the backend /predict is issued for it.
C1_FailedProbeGives503 ==
    (route = "predict" /\ ProbeFailed(probe))
        => /\ Answered
           /\ out[1].code = 503
           /\ predictCalls = 0
           /\ sent = NoBody

C1_Witness ==
    /\ route = "predict"
    /\ probe = Raised("Timeout")
    /\ body.kind = "object"
    /\ MissingFields(body.data) = {}
    /\ Answered
    /\ out[1].code = 503

\* C2 as stated: every POST /predict whose JSON object lacks a required field
\* is answered 400 "Missing required field: <first missing>" and is not
\* forwarded.
C2_Original ==
    (route = "predict" /\ pc = "done" /\ body.kind = "object"
     /\ MissingFields(body.data) # {})
        => /\ Len(out) = 1
           /\ out[1].code = 400
           /\ out[1].error = <<"Missing required field: ",
                               FirstInOrder(MissingFields(body.data))>>
           /\ predictCalls = 0

\* C2 amended: after a successful liveness probe, a POST /predict whose JSON
\* object lacks a required field is answered 400 "Missing required field:
\* <first missing in the order gender, age, medication, dose, duration>" and
\* is not forwarded.
C2_MissingFieldAfterProbe ==
    (route = "predict" /\ ProbeSucceeded(probe) /\ body.kind = "object"
     /\ MissingFields(body.data) # {})
        => /\ Answered
           /\ out[1].code = 400
           /\ out[1].error = <<"Missing required field: ",
                               FirstInOrder(MissingFields(body.data))>>
           /\ predictCalls = 0
           /\ sent = NoBody

C2_Witness ==
    /\ route = "predict"
    /\ ProbeSucceeded(probe)
    /\ body.kind = "object"
    /\ MissingFields(body.data) = {"dose", "duration"}
    /\ Answered
    /\ out[1].error = <<"Missing required field: ", "dose">>

\* C3: a forward that raised instead of returning a backend response is
\* answered 504 for a timeout, 503 for a connection failure, and 500 with the
\* exception text in the error message for any other exception.
C3_ForwardFailureStatus ==
    (route = "predict" /\ answer.kind = "exception")
        => /\ Answered
           /\ out[1].code \in {503, 504, 500}
           /\ out[1].code = 504 <=> answer.exc \in {"Timeout", "ConnectTimeout"}
           /\ out[1].code = 503 <=> answer.exc = "ConnectionError"
           /\ out[1].code = 500 =>
                  \E i \in 1..Len(out[1].error) : out[1].error[i] = answer.exc

C3_Witness ==
    /\ route = "predict"
    /\ answer = Raised("ConnectTimeout")
    /\ Answered
    /\ out[1].code = 504

\* C4: when the backend answers the forwarded POST with status s and JSON
\* body b, the gateway answers with status s and body b.
C4_RelayVerbatim ==
    (route = "predict" /\ answer.kind = "response" /\ answer.json)
        => /\ Answered
           /\ out[1].code = answer.status
           /\ out[1].body = answer.body
           /\ out[1].relayed
           /\ out[1].error = NoError

C4_Witness ==
    /\ route = "predict"
    /\ answer = Answer(400, TRUE, 2)
    /\ Answered
    /\ out[1].code = 400
    /\ out[1].body = 2

\* C5: after a successful probe, a payload with all five required fields is
\* forwarded unchanged whatever its values are; the gateway's answer then
\* comes from the outcome of the forward, never from a check of the values.
C5_ForwardedUnchanged ==
    (route = "predict" /\ ProbeSucceeded(probe) /\ body.kind = "object"
     /\ MissingFields(body.data) = {})
        => /\ predictCalls = 1
           /\ sent = body
           /\ pc \in {"call", "done"}
           /\ pc = "done" => answer # NoOutcome

C5_Witness ==
    /\ route = "predict"
    /\ pc = "call"
    /\ body.kind = "object"
    /\ body.data["age"] = "150"
    /\ body.data["dose"] = "0"
    /\ body.data["duration"] = "-1"
    /\ body.data["medication"] = "Unobtainium"
    /\ body.data["gender"] = "robot"
    /\ sent = body

\* C6: GET /health answers healthy/online with 200 exactly when the probe
\* succeeded, degraded/offline with 200 exactly when the probe failed, and
\* unhealthy only with 500 when the handler raised.
C6_HealthStatus ==
    (route = "health" /\ pc = "done")
        => /\ Len(out) = 1
           /\ out[1].status \in {"healthy", "degraded", "unhealthy"}
           /\ out[1].status = "healthy" <=> ProbeSucceeded(probe)
           /\ out[1].status = "healthy" =>
                  out[1].backend_status = "online" /\ out[1].code = 200
           /\ out[1].status = "degraded" <=> ProbeFailed(probe)
           /\ out[1].status = "degraded" =>
                  out[1].backend_status = "offline" /\ out[1].code = 200
           /\ out[1].status = "unhealthy" =>
                  out[1].code = 500 /\ health_raises(probe)

C6_Witness ==
    /\ route = "health"
    /\ Answered
    /\ probe = Answer(503, FALSE, 0)
    /\ out[1].status = "degraded"
    /\ out[1].backend_status = "offline"


CallFailed(o) == o.kind = "exception" \/ (o.kind = "response" /\ o.status # 200)

\* C7: for a POST /predict at most one GET /health and at most one POST
\* /predict go to the backend, the POST only after the GET has returned, and
\* the step in which either call fails answers the client without issuing
\* another backend call.
C7_NoRetry ==
    /\ [](route = "predict" =>
            /\ healthCalls <= 1
            /\ predictCalls <= 1
            /\ predictCalls = 1 => (healthCalls = 1 /\ probe.kind = "response")
            /\ pc = "probe" => (healthCalls = 1 /\ predictCalls = 0))
    /\ [][(route' = "predict"
           /\ \/ (probe' # probe /\ (ProbeFailed(probe') \/ probe'.kind = "exception"))
              \/ (answer' # answer /\ CallFailed(answer')))
            => /\ pc' = "done"
               /\ Len(out') = 1
               /\ healthCalls' = healthCalls
               /\ predictCalls' = predictCalls
               /\ medCalls' = medCalls]_vars

C7_Witness ==
    /\ route = "predict"
    /\ answer = Raised("Timeout")
    /\ Answered
    /\ healthCalls = 1
    /\ predictCalls = 1

\* C8: a request to /predict, /medications or /health, and one to an unknown
\* route, ends with exactly one JSON response whatever the backend does and
\* whatever the request body is; an error response the gateway builds itself
\* carries an error string; the gateway then takes the next request.
C8_OneJsonResponse ==
    /\ pc \in {"idle", "probe", "call"} => out = <<>>
    /\ pc \in {"probe", "call"} =>
          /\ timeout > 0
          /\ ENABLED ((\E o \in ProbeOutcomes :
                            \/ PredictProbeReturns(o)
                            \/ MedicationsProbeReturns(o)
                            \/ HealthProbeReturns(o))
                       \/ (\E r \in CallOutcomes :
                            \/ PredictCallReturns(r)
                            \/ MedicationsCallReturns(r)))
    /\ pc = "done" =>
          /\ Len(out) = 1
          /\ out[1].mimetype = "application/json"
          /\ (~out[1].relayed /\ out[1].code >= 400) =>
                 (out[1].error # NoError /\ out[1].code \in {400, 404, 500, 503, 504})
          /\ ENABLED Close

C8_Witness ==
    /\ served >= 1
    /\ route = "predict"
    /\ body.kind = "null"
    /\ Answered
    /\ out[1].code = 500
    /\ out[1].error = <<"Prediction failed: ", "TypeError">>

\* C9: in POST /predict the probe comes before the body is read and before
\* the presence check: the body is read only after a successful probe, the
\* "Missing required field" answer is given only after a successful probe,
\* and a request with a missing field whose probe failed is answered 503.
C9_ProbeBeforePresenceCheck ==
    route = "predict" =>
        /\ bodyRead => ProbeSucceeded(probe)
        /\ pc = "probe" => ~bodyRead
        /\ (pc = "done" /\ out[1].error # NoError
            /\ out[1].error[1] = "Missing required field: ") => ProbeSucceeded(probe)
        /\ (ProbeFailed(probe) /\ body.kind = "object"
            /\ MissingFields(body.data) # {}) => (Answered /\ out[1].code = 503)

C9_Witness ==
    /\ route = "predict"
    /\ body.kind = "object"
    /\ MissingFields(body.data) = {"dose"}
    /\ probe = Answer(500, FALSE, 0)
    /\ Answered
    /\ out[1].code = 503
    /\ ~bodyRead

\* C10: GET /medications answers 503 without contacting the backend
\* /medications when the probe failed, relays the backend's status and JSON
\* body when the backend answered, and answers 500 with the exception text
\* as error when the call raised, a timeout or connection failure included.
C10_Medications ==
    route = "medications" =>
        /\ ProbeFailed(probe) => (Answered /\ out[1].code = 503 /\ medCalls = 0)
        /\ (answer.kind = "response" /\ answer.json) =>
               /\ Answered
               /\ out[1].code = answer.status
               /\ out[1].body = answer.body
               /\ out[1].relayed
        /\ answer.kind = "exception" =>
               /\ Answered
               /\ out[1].code = 500
               /\ out[1].error = <<answer.exc>>
        /\ medCalls = 1 => ProbeSucceeded(probe)
        /\ predictCalls = 0

C10_Witness ==
    /\ route = "medications"
    /\ answer = Raised("Timeout")
    /\ Answered
    /\ out[1].code = 500
    /\ out[1].error = <<"Timeout">>

====
